---- MODULE Spec2Model ----
(***************************************************************************)
(* avr-docs-mcp: the process start-up of src/index.ts, its HTTP session    *)
(* layer (the `transports` object and the three /mcp routes), and the      *)
(* client-side pagination of WikiService.searchPages / listPages.          *)
(*                                                                         *)
(* JavaScript values are modelled as strings; Undefined stands for the     *)
(* value `undefined` (an absent header or environment variable).           *)
(* Transport instances are numbered in creation order (1, 2, ...).         *)
(***************************************************************************)
EXTENDS Integers, Sequences, FiniteSets, TLC

VARIABLES
    pc,              \* position of the module's top-level code / main()
    env,             \* process.env after dotenv's config()
    tools,           \* names registered with server.registerTool
    transports,      \* own properties of the `transports` object: id -> transport
    tSession,        \* transport.sessionId of every transport instance
    tClosed,         \* the transport instances that have closed
    created,         \* number of StreamableHTTPServerTransport instances made
    serverTransport, \* the transport the single shared `server` is connected to
    last,            \* the last event: the HTTP call (or close) and its outcome
    request,         \* the WikiService call under way: operation, page, limit
    response,        \* what the upstream GraphQL endpoint answered to it, once it has
    result,          \* what the call returned, or the error it threw, once it has
    pageId,          \* the argument of the getPage call under way
    query,           \* the GraphQL operation the call issued, with its variables
    toolCall,        \* the tool call under way: tool name and arguments as received
    toolResult,      \* what the tool handler returned, or the error it let through
    pending          \* an HTTP tool call that awaits its upstream answer

httpVars == <<transports, tSession, tClosed, created, serverTransport, last, pending>>

adapterVars == <<request, response, result, pageId, query>>

toolVars == <<toolCall, toolResult>>

vars == <<pc, env, tools, httpVars, adapterVars, toolVars>>

----------------------------------------------------------------------------
(* Bounds *)

MaxTransports == 3

\* most records the upstream returns to one query
MaxItems == 3

\* largest page number and page size asked for
MaxPage == 3

MaxLimit == 3

\* most hits the upstream search counts beyond the records it returns
MaxExtraHits == 1

\* longest page identifier given to getPage, in characters
MaxIdLen == 2

----------------------------------------------------------------------------
(* Values *)

Undefined == "undefined"

NoTransport == 0

\* a truthy value found through the prototype chain of `transports`
\* (Object.prototype.constructor and friends): not a transport
Inherited == -1

Stdio == 100

Truthy(v) == v \notin {Undefined, ""}

\* before any WikiService call
NoRequest == [op |-> "none", page |-> 0, limit |-> 0]

NoUpstream == [kind |-> "none", results |-> <<>>, totalHits |-> 0]

NoResult == [kind |-> "none", pages |-> <<>>, total |-> 0, page |-> 0, limit |-> 0,
             message |-> <<>>, value |-> FALSE]

\* a string is a sequence of characters; no getPage call yet
NoPageId == <<>>

NoQuery == [name |-> "none", id |-> 0, path |-> <<>>, locale |-> ""]

\* an argument the caller left out
Omitted == [given |-> FALSE, value |-> 0]

NoToolCall == [tool |-> "none", page |-> Omitted, limit |-> Omitted]

NoToolResult == [kind |-> "none", found |-> 0, showing |-> 0, page |-> 0,
                 content |-> "", message |-> <<>>]

NoCall == [session |-> Undefined, transport |-> NoTransport, via |-> NoTransport]

Transports == 1..MaxTransports

\* the values randomUUID() can return
Uuids == {"uuid-" \o ToString(i) : i \in Transports}

\* names every object literal inherits from Object.prototype
ObjectPrototypeKeys == {"constructor"}

\* the values of the mcp-session-id header a client can send
Headers == {Undefined, ""} \cup Uuids \cup ObjectPrototypeKeys

Methods == {"initialize", "tools/call"}

ToolNames == <<"search_wiki_pages", "list_wiki_pages", "get_wiki_page">>

EnvValues == {Undefined, "", "set"}

Modes == {Undefined, "stdio", "http"}

\* randomUUID(): a version-4 UUID, taken never to repeat one already returned
\* (every identifier returned so far is some transport's sessionId)
randomUUID == Uuids \ {tSession[t] : t \in Transports}

----------------------------------------------------------------------------
(* Start-up: src/index.ts top level, WikiService constructor *)

\* variant: the constructor checks the base URL only
ConstructorThrows_baseUrlOnly(e) == ~Truthy(e.baseUrl)

\* WikiService constructor: throws unless both variables are set (non-empty)
ConstructorThrows(e) == ~Truthy(e.baseUrl) \/ ~Truthy(e.apiKey)

Mode(e) == IF Truthy(e.mode) THEN e.mode ELSE "stdio"

NoEvent ==
    [verb |-> "none", header |-> Undefined, method |-> "", outcome |-> "none",
     status |-> 0, body |-> "none", code |-> 0, id |-> "", transport |-> NoTransport,
     via |-> NoTransport, session |-> Undefined]

Init ==
    /\ pc = "start"
    /\ env \in [baseUrl : EnvValues, apiKey : EnvValues, mode : Modes]
    /\ tools = {}
    /\ transports = <<>>
    /\ tSession = [t \in Transports |-> Undefined]
    /\ tClosed = {}
    /\ created = 0
    /\ serverTransport = NoTransport
    /\ last = NoEvent
    /\ request = NoRequest
    /\ response = NoUpstream
    /\ result = NoResult
    /\ pageId = NoPageId
    /\ query = NoQuery
    /\ toolCall = NoToolCall
    /\ toolResult = NoToolResult
    /\ pending = NoCall

\* try { wikiService = new WikiService() } catch { process.exit(1) }
NewWikiService ==
    /\ pc = "start"
    /\ pc' = IF ConstructorThrows(env) THEN "exited" ELSE "service"
    /\ UNCHANGED <<env, tools, httpVars, adapterVars, toolVars>>

\* const server = new McpServer(...)
NewMcpServer ==
    /\ pc = "service"
    /\ pc' = "server"
    /\ UNCHANGED <<env, tools, httpVars, adapterVars, toolVars>>

\* the three server.registerTool calls, in source order
RegisterTool ==
    /\ pc = "server"
    /\ LET n == Cardinality(tools) + 1 IN
        /\ tools' = tools \cup {ToolNames[n]}
        /\ pc' = IF n = Len(ToolNames) THEN "registered" ELSE "server"
    /\ UNCHANGED <<env, httpVars, adapterVars, toolVars>>

\* main(): HTTP mode starts listening, any other mode connects a stdio transport
Main ==
    /\ pc = "registered"
    /\ IF Mode(env) = "http"
         THEN /\ pc' = "http"
              /\ UNCHANGED serverTransport
         ELSE /\ pc' = "stdio"
              /\ serverTransport' = Stdio
    /\ UNCHANGED <<env, tools, transports, tSession, tClosed, created, last, pending,
                   adapterVars, toolVars>>

----------------------------------------------------------------------------
(* HTTP mode: the `transports` object *)

\* transports[sessionId]: own property, else whatever the prototype chain holds
Lookup(tr, k) ==
    IF k \in DOMAIN tr THEN tr[k]
    ELSE IF k \in ObjectPrototypeKeys THEN Inherited
    ELSE NoTransport

\* variant: the initialize test comes first, whatever the session header
PostBranch_initializeFirst(tr, h, m) ==
    IF m = "initialize" THEN "new"
    ELSE IF Truthy(h) /\ Lookup(tr, h) # NoTransport THEN "reuse"
    ELSE "invalid"

\* variant: a call without a session header opens a session whatever its method
PostBranch_anyMethod(tr, h, m) ==
    IF Truthy(h) /\ Lookup(tr, h) # NoTransport THEN "reuse"
    ELSE IF ~Truthy(h) THEN "new"
    ELSE "invalid"

\* the if / else-if / else of app.post('/mcp')
PostBranch(tr, h, m) ==
    IF Truthy(h) /\ Lookup(tr, h) # NoTransport THEN "reuse"
    ELSE IF ~Truthy(h) /\ m = "initialize" THEN "new"
    ELSE "invalid"

\* variant: the callback stores a stale transport (the one made before)
OnSessionInitialized_stale(tr, sid, t) ==
    [k \in DOMAIN tr \cup {sid} |-> IF k = sid THEN (IF t > 1 THEN t - 1 ELSE t) ELSE tr[k]]

\* onsessioninitialized: transports[sessionId] = transport
OnSessionInitialized(tr, sid, t) ==
    [k \in DOMAIN tr \cup {sid} |-> IF k = sid THEN t ELSE tr[k]]

\* variant: onclose leaves the entry in place
OnClose_keep(tr, sid) == tr

\* transport.onclose: if (transport.sessionId) delete transports[transport.sessionId]
OnClose(tr, sid) ==
    IF Truthy(sid) THEN [k \in DOMAIN tr \ {sid} |-> tr[k]] ELSE tr

\* server.connect(transport): the one shared server now talks to `transport`
Connect(t) == t

\* the server answers a request over the transport it is connected to when the
\* request arrives
AnswerVia(cur) == cur

\* the body of res.status(400).json({...}) in app.post('/mcp')
PostRejection ==
    [status |-> 400, body |-> "jsonrpc-error", code |-> -32000, id |-> "null"]

\* res.status(400).send('Invalid or missing session ID') in handleSessionRequest
SessionRejection ==
    [status |-> 400, body |-> "text", code |-> 0, id |-> ""]

\* the guard of handleSessionRequest
SessionBranch(tr, h) ==
    IF ~Truthy(h) \/ Lookup(tr, h) = NoTransport THEN "invalid" ELSE "serve"

Event(verb, h, m, outcome, resp, t, via, sid) ==
    [verb |-> verb, header |-> h, method |-> m, outcome |-> outcome,
     status |-> resp.status, body |-> resp.body, code |-> resp.code, id |-> resp.id,
     transport |-> t, via |-> via, session |-> sid]

SdkResponse(status) == [status |-> status, body |-> "sdk", code |-> 0, id |-> ""]

NoResponse == [status |-> 0, body |-> "none", code |-> 0, id |-> ""]

\* the transport closes: its onclose chain runs (the handler of app.post, then
\* the server's own, which drops the server's transport)
CloseEffects(t) ==
    /\ transports' = OnClose(transports, tSession[t])
    /\ tClosed' = tClosed \cup {t}
    /\ serverTransport' = NoTransport

\* a tool call whose handler is suspended at `await wikiService...`: the
\* session and transport it came in on and the transport the server will
\* answer over; one such call is followed at a time
Awaiting(cur, h, t, via) ==
    IF cur = NoCall THEN [session |-> h, transport |-> t, via |-> via] ELSE cur

\* the transports the answer of a suspended call can leave on once the
\* upstream has answered: the one the server held when the call arrived, if
\* it is still open; when that is not the call's own, transport.send finds a
\* stream only if a request with the same JSON-RPC id is open there and throws
\* otherwise; with none the answer is dropped
Deliveries(call) ==
    IF call.via = NoTransport \/ call.via \in tClosed
    THEN {NoTransport}
    ELSE IF call.via = call.transport THEN {call.via} ELSE {call.via, NoTransport}

\* app.post('/mcp')
Post(h, m) ==
    /\ pc = "http"
    /\ LET b == PostBranch(transports, h, m) IN
       CASE b = "reuse" ->
              LET t == Lookup(transports, h) IN
              IF t = Inherited
              THEN \* transport.handleRequest is not a function: TypeError
                   /\ last' = Event("POST", h, m, "threw", NoResponse, NoTransport,
                                    NoTransport, Undefined)
                   /\ UNCHANGED <<transports, tSession, tClosed, created, serverTransport,
                                  pending>>
              ELSE IF m = "initialize"
              THEN \* the transport itself refuses a second initialize
                   /\ last' = Event("POST", h, m, "refused", SdkResponse(400), t, t, h)
                   /\ UNCHANGED <<transports, tSession, tClosed, created, serverTransport,
                                  pending>>
              ELSE /\ last' = Event("POST", h, m, "handled", SdkResponse(200), t,
                                    AnswerVia(serverTransport), h)
                   /\ pending' = Awaiting(pending, h, t, AnswerVia(serverTransport))
                   /\ UNCHANGED <<transports, tSession, tClosed, created, serverTransport>>
         [] b = "new" ->
              /\ created < MaxTransports
              /\ \E sid \in randomUUID :
                   LET t == created + 1 IN
                   /\ created' = t
                   /\ serverTransport' = Connect(t)
                   /\ tSession' = [tSession EXCEPT ![t] = sid]
                   /\ transports' = OnSessionInitialized(transports, sid, t)
                   /\ last' = Event("POST", h, m, "initialized", SdkResponse(200), t,
                                    AnswerVia(serverTransport'), sid)
              /\ UNCHANGED <<tClosed, pending>>
         [] b = "invalid" ->
              /\ last' = Event("POST", h, m, "rejected", PostRejection, NoTransport,
                               NoTransport, Undefined)
              /\ UNCHANGED <<transports, tSession, tClosed, created, serverTransport,
                             pending>>
    /\ UNCHANGED <<pc, env, tools, adapterVars, toolVars>>

\* app.get('/mcp', handleSessionRequest)
Get(h) ==
    /\ pc = "http"
    /\ LET b == SessionBranch(transports, h)
           t == Lookup(transports, h) IN
       IF b = "invalid"
       THEN last' = Event("GET", h, "", "rejected", SessionRejection, NoTransport,
                          NoTransport, Undefined)
       ELSE IF t = Inherited
       THEN last' = Event("GET", h, "", "threw", NoResponse, NoTransport,
                          NoTransport, Undefined)
       ELSE last' = Event("GET", h, "", "handled", SdkResponse(200), t, t, h)
    /\ UNCHANGED <<pc, env, tools, transports, tSession, tClosed, created, serverTransport,
                   pending, adapterVars, toolVars>>

\* app.delete('/mcp', handleSessionRequest): the transport ends its session
Delete(h) ==
    /\ pc = "http"
    /\ LET b == SessionBranch(transports, h)
           t == Lookup(transports, h) IN
       IF b = "invalid"
       THEN /\ last' = Event("DELETE", h, "", "rejected", SessionRejection, NoTransport,
                             NoTransport, Undefined)
            /\ UNCHANGED <<transports, tClosed, serverTransport>>
       ELSE IF t = Inherited
       THEN /\ last' = Event("DELETE", h, "", "threw", NoResponse, NoTransport,
                             NoTransport, Undefined)
            /\ UNCHANGED <<transports, tClosed, serverTransport>>
       ELSE /\ last' = Event("DELETE", h, "", "terminated", SdkResponse(200), t, t, h)
            /\ CloseEffects(t)
    /\ UNCHANGED <<pc, env, tools, tSession, created, pending, adapterVars, toolVars>>

\* a transport closes on its own: transport.onclose
TransportClose(t) ==
    /\ pc = "http"
    /\ t \in 1..created
    /\ t \notin tClosed
    /\ last' = Event("close", Undefined, "", "closed", NoResponse, t, NoTransport,
                     tSession[t])
    /\ CloseEffects(t)
    /\ UNCHANGED <<pc, env, tools, tSession, created, pending, adapterVars, toolVars>>

\* the upstream answers a suspended tool call: the handler returns and the
\* server sends its result
UpstreamCompletes ==
    /\ pc = "http"
    /\ pending # NoCall
    /\ \E d \in Deliveries(pending) :
         last' = Event("complete", pending.session, "tools/call",
                       IF d = NoTransport THEN "dropped" ELSE "delivered",
                       IF d = NoTransport THEN NoResponse ELSE SdkResponse(200),
                       pending.transport, d, pending.session)
    /\ pending' = NoCall
    /\ UNCHANGED <<pc, env, tools, transports, tSession, tClosed, created,
                   serverTransport, adapterVars, toolVars>>

Next ==
    \/ NewWikiService
    \/ NewMcpServer
    \/ RegisterTool
    \/ Main
    \/ \E h \in Headers, m \in Methods : Post(h, m)
    \/ \E h \in Headers : Get(h)
    \/ \E h \in Headers : Delete(h)
    \/ \E t \in Transports : TransportClose(t)
    \/ UpstreamCompletes

Spec == Init /\ [][Next]_vars

----------------------------------------------------------------------------
(* Content adapter: WikiService.executeQuery, searchPages, listPages *)

Min(a, b) == IF a < b THEN a ELSE b

Max(a, b) == IF a > b THEN a ELSE b

\* the records of one upstream answer: distinct record ids, in upstream order
Listings ==
    {s \in UNION {[1..n -> 1..MaxItems] : n \in 0..MaxItems} :
        \A i, j \in DOMAIN s : i # j => s[i] # s[j]}

\* what the POST to /graphql can come back with: data, a GraphQL error list,
\* or an axios failure (network, timeout, HTTP status)
UpstreamFailures ==
    {[kind |-> k, results |-> <<>>, totalHits |-> 0] : k \in {"errors", "axios"}}

\* answers to the search query: the results and the totalHits the engine counts
SearchUpstreams ==
    {[kind |-> "data", results |-> l, totalHits |-> Len(l) + x] :
        l \in Listings, x \in 0..MaxExtraHits}
    \cup UpstreamFailures

\* answers to the list query: the listing alone (totalHits is not part of it)
ListUpstreams ==
    {[kind |-> "data", results |-> l, totalHits |-> 0] : l \in Listings}
    \cup UpstreamFailures

\* Array.prototype.slice(start, end) on integer arguments
RelativeIndex(i, len) == IF i < 0 THEN Max(len + i, 0) ELSE Min(i, len)

Slice(s, start, end) ==
    LET k == RelativeIndex(start, Len(s))
        e == RelativeIndex(end, Len(s))
    IN  [i \in 1..Max(e - k, 0) |-> s[k + i]]

\* variant: the page number taken as zero-based
StartIndex_zeroBased(page, limit) == page * limit

\* const startIndex = (page - 1) * limit
StartIndex(page, limit) == (page - 1) * limit

\* variant: the end offset taken as inclusive
EndIndex_inclusive(startIndex, limit) == startIndex + limit + 1

\* const endIndex = startIndex + limit
EndIndex(startIndex, limit) == startIndex + limit

\* results.slice(startIndex, endIndex)
Paginate(all, page, limit) ==
    Slice(all, StartIndex(page, limit), EndIndex(StartIndex(page, limit), limit))

\* author: { id: '0', name: 'Unknown', email: '' }
DefaultAuthor == [id |-> "0", name |-> "Unknown", email |-> ""]

\* variant: the search result keeps a body
SearchDocument_withBody(id) ==
    [id |-> ToString(id), content |-> "body", author |-> DefaultAuthor]

\* the object searchPages maps a raw search result to
SearchDocument(id) == [id |-> ToString(id), content |-> "", author |-> DefaultAuthor]

\* the object listPages maps a raw list record to
ListDocument(id) == [id |-> ToString(id), content |-> "", author |-> DefaultAuthor]

\* variant: total counts the records of the returned page
SearchTotal_sliced(data, paginated) == Len(paginated)

\* total: searchData.totalHits
SearchTotal(data, paginated) == data.totalHits

\* total: allPages.length
ListTotal(data, paginated) == Len(data.results)

\* executeQuery: the message of the error it throws, <<>> when it returns data
ExecuteQueryError(up) ==
    CASE up.kind = "errors" -> <<"GraphQL errors: ">>
      [] up.kind = "axios" -> <<"GraphQL request failed: ">>
      [] OTHER -> <<>>

Failure(prefix, inner) ==
    [kind |-> "error", pages |-> <<>>, total |-> 0, page |-> 0, limit |-> 0,
     message |-> <<prefix>> \o inner, value |-> FALSE]

\* WikiService.searchPages(query, page, limit)
SearchPagesResult(page, limit, up) ==
    IF ExecuteQueryError(up) # <<>>
    THEN Failure("Wiki.JS search failed: ", ExecuteQueryError(up))
    ELSE LET paginated == Paginate(up.results, page, limit) IN
         [kind |-> "page",
          pages |-> [i \in DOMAIN paginated |-> SearchDocument(paginated[i])],
          total |-> SearchTotal(up, paginated),
          page |-> page, limit |-> limit, message |-> <<>>, value |-> FALSE]

\* WikiService.listPages(page, limit)
ListPagesResult(page, limit, up) ==
    IF ExecuteQueryError(up) # <<>>
    THEN Failure("Wiki.JS page listing failed: ", ExecuteQueryError(up))
    ELSE LET paginated == Paginate(up.results, page, limit) IN
         [kind |-> "page",
          pages |-> [i \in DOMAIN paginated |-> ListDocument(paginated[i])],
          total |-> ListTotal(up, paginated),
          page |-> page, limit |-> limit, message |-> <<>>, value |-> FALSE]

\* WikiService.getPage and testConnection

\* the characters page identifiers are made of here: two digits, a letter, a sign
Chars == {"0", "7", "a", "-"}

Digits == {"0", "7"}

PageIds == UNION {[1..n -> Chars] : n \in 0..MaxIdLen}

DigitValue(c) == IF c = "7" THEN 7 ELSE 0

\* an optional field of an upstream record: <<>> when the record lacks it
Absent == <<>>

\* the records the single-page queries can come back with
PageRecords ==
    [id : {3}, content : {"", "# Setup"}, authorId : {Absent, <<7>>},
     authorName : {Absent, <<"">>, <<"Ann">>}, authorEmail : {Absent, <<"ann@x">>}]

\* answers to the single-page queries: a record, null, or a failure
GetUpstreams ==
    {[kind |-> "data", results |-> <<r>>, totalHits |-> 0] : r \in PageRecords}
    \cup {[kind |-> "data", results |-> <<>>, totalHits |-> 0]}
    \cup UpstreamFailures

\* answers to the system-info query
TestUpstreams ==
    {[kind |-> "data", results |-> <<>>, totalHits |-> 0]} \cup UpstreamFailures

\* variant: a leading sign is accepted as part of a number
IsNumeric_signed(s) ==
    /\ Len(s) >= 1
    /\ \A i \in DOMAIN s : s[i] \in Digits \/ (i = 1 /\ s[i] = "-" /\ Len(s) >= 2)

\* /^\d+$/.test(pageId)
IsNumeric(s) == Len(s) >= 1 /\ \A i \in DOMAIN s : s[i] \in Digits

RECURSIVE ParseInt(_)
\* parseInt(pageId), for the strings of decimal digits it is called on
ParseInt(s) ==
    IF s = <<>> THEN 0
    ELSE 10 * ParseInt(SubSeq(s, 1, Len(s) - 1)) + DigitValue(s[Len(s)])

\* the query and variables getPage sends
GetPageQuery(pid) ==
    IF IsNumeric(pid)
    THEN [name |-> "GetPageById", id |-> ParseInt(pid), path |-> <<>>, locale |-> ""]
    ELSE [name |-> "GetPageByPath", id |-> 0, path |-> pid, locale |-> "en"]

\* field || fallback
OrElse(field, fallback) ==
    IF field = Absent \/ field[1] = "" THEN fallback ELSE field[1]

\* variant: the body is dropped as in search and list
GetDocument_noBody(page) ==
    [id |-> ToString(page.id), content |-> "",
     author |-> [id |-> ToString(page.authorId[1]),
                 name |-> OrElse(page.authorName, "Unknown"),
                 email |-> OrElse(page.authorEmail, "")]]

\* the object getPage returns for a record (page.authorId is present)
GetDocument(page) ==
    [id |-> ToString(page.id), content |-> page.content,
     author |-> [id |-> ToString(page.authorId[1]),
                 name |-> OrElse(page.authorName, "Unknown"),
                 email |-> OrElse(page.authorEmail, "")]]

\* WikiService.getPage(pageId); the WikiPage it returns is the one element of pages
GetPageResult(pid, up) ==
    IF ExecuteQueryError(up) # <<>>
    THEN Failure("Wiki.JS page retrieval failed: ", ExecuteQueryError(up))
    ELSE IF up.results = <<>>
    THEN Failure("Wiki.JS page retrieval failed: ", <<"Page not found: ">>)
    ELSE LET page == up.results[1] IN
         IF page.authorId = Absent
         THEN \* page.authorId.toString(): TypeError, caught and wrapped
              Failure("Wiki.JS page retrieval failed: ",
                      <<"Cannot read properties of undefined (reading 'toString')">>)
         ELSE [kind |-> "document", pages |-> <<GetDocument(page)>>, total |-> 0,
               page |-> 0, limit |-> 0, message |-> <<>>, value |-> FALSE]

Returns(b) ==
    [kind |-> "boolean", pages |-> <<>>, total |-> 0, page |-> 0, limit |-> 0,
     message |-> <<>>, value |-> b]

\* variant: the failure is passed on to the caller
TestConnectionResult_rethrow(up) ==
    IF ExecuteQueryError(up) # <<>>
    THEN Failure("Wiki.JS connection test failed: ", ExecuteQueryError(up))
    ELSE Returns(TRUE)

\* WikiService.testConnection()
TestConnectionResult(up) ==
    IF ExecuteQueryError(up) # <<>> THEN Returns(FALSE) ELSE Returns(TRUE)

\* the adapter is called in a process that has started (stdio mode here)
AdapterInit ==
    /\ pc = "stdio"
    /\ env = [baseUrl |-> "set", apiKey |-> "set", mode |-> "stdio"]
    /\ tools = {ToolNames[i] : i \in DOMAIN ToolNames}
    /\ transports = <<>>
    /\ tSession = [t \in Transports |-> Undefined]
    /\ tClosed = {}
    /\ created = 0
    /\ serverTransport = Stdio
    /\ last = NoEvent
    /\ request = NoRequest
    /\ response = NoUpstream
    /\ result = NoResult
    /\ pageId = NoPageId
    /\ query = NoQuery
    /\ toolCall = NoToolCall
    /\ toolResult = NoToolResult
    /\ pending = NoCall

\* searchPages up to `await this.executeQuery(...)`: the query is on its way
SearchPagesIssued(page, limit) ==
    /\ request' = [op |-> "search", page |-> page, limit |-> limit]
    /\ response' = NoUpstream
    /\ result' = NoResult
    /\ pageId' = NoPageId
    /\ query' = [NoQuery EXCEPT !.name = "SearchPages"]

\* a direct call of the adapter
searchPagesCall(page, limit) ==
    /\ pc \in {"stdio", "http"}
    /\ SearchPagesIssued(page, limit)
    /\ UNCHANGED <<pc, env, tools, httpVars, toolVars>>

\* searchPages from the upstream's answer to its return or throw
searchPagesReturn(up) ==
    /\ request.op = "search"
    /\ response = NoUpstream
    /\ response' = up
    /\ result' = SearchPagesResult(request.page, request.limit, up)
    /\ UNCHANGED <<pc, env, tools, httpVars, toolVars, request, pageId, query>>

\* listPages up to `await this.executeQuery(...)`
ListPagesIssued(page, limit) ==
    /\ request' = [op |-> "list", page |-> page, limit |-> limit]
    /\ response' = NoUpstream
    /\ result' = NoResult
    /\ pageId' = NoPageId
    /\ query' = [NoQuery EXCEPT !.name = "ListPages"]

\* a direct call of the adapter
listPagesCall(page, limit) ==
    /\ pc \in {"stdio", "http"}
    /\ ListPagesIssued(page, limit)
    /\ UNCHANGED <<pc, env, tools, httpVars, toolVars>>

\* listPages from the upstream's answer to its return or throw
listPagesReturn(up) ==
    /\ request.op = "list"
    /\ response = NoUpstream
    /\ response' = up
    /\ result' = ListPagesResult(request.page, request.limit, up)
    /\ UNCHANGED <<pc, env, tools, httpVars, toolVars, request, pageId, query>>

\* getPage up to `await this.executeQuery(...)`
GetPageIssued(pid) ==
    /\ request' = [op |-> "get", page |-> 0, limit |-> 0]
    /\ response' = NoUpstream
    /\ result' = NoResult
    /\ pageId' = pid
    /\ query' = GetPageQuery(pid)

\* a direct call of the adapter
getPageCall(pid) ==
    /\ pc \in {"stdio", "http"}
    /\ GetPageIssued(pid)
    /\ UNCHANGED <<pc, env, tools, httpVars, toolVars>>

\* getPage from the upstream's answer to its return or throw
getPageReturn(up) ==
    /\ request.op = "get"
    /\ response = NoUpstream
    /\ response' = up
    /\ result' = GetPageResult(pageId, up)
    /\ UNCHANGED <<pc, env, tools, httpVars, toolVars, request, pageId, query>>

\* testConnection up to `await this.executeQuery(...)`
testConnectionCall ==
    /\ pc \in {"stdio", "http"}
    /\ request' = [op |-> "test", page |-> 0, limit |-> 0]
    /\ response' = NoUpstream
    /\ result' = NoResult
    /\ pageId' = NoPageId
    /\ query' = [NoQuery EXCEPT !.name = "TestConnection"]
    /\ UNCHANGED <<pc, env, tools, httpVars, toolVars>>

\* testConnection from the upstream's answer to its return
testConnectionReturn(up) ==
    /\ request.op = "test"
    /\ response = NoUpstream
    /\ response' = up
    /\ result' = TestConnectionResult(up)
    /\ UNCHANGED <<pc, env, tools, httpVars, toolVars, request, pageId, query>>

AdapterNext ==
    \/ \E page \in 1..MaxPage, limit \in 1..MaxLimit : searchPagesCall(page, limit)
    \/ \E up \in SearchUpstreams : searchPagesReturn(up)
    \/ \E page \in 1..MaxPage, limit \in 1..MaxLimit : listPagesCall(page, limit)
    \/ \E up \in ListUpstreams : listPagesReturn(up)
    \/ \E pid \in PageIds : getPageCall(pid)
    \/ \E up \in GetUpstreams : getPageReturn(up)
    \/ testConnectionCall
    \/ \E up \in TestUpstreams : testConnectionReturn(up)

AdapterSpec == AdapterInit /\ [][AdapterNext]_vars

----------------------------------------------------------------------------
(* Tool registry: the three handlers given to server.registerTool *)

DefaultPage == 1

DefaultSearchLimit == 10

DefaultListLimit == 20

LimitCeiling == 50

Given(v) == [given |-> TRUE, value |-> v]

\* z.number().optional(): any number or nothing; the integers tried here
\* include zero, a negative one and values around the defaults and the ceiling
PageArgs == {Omitted} \cup {Given(v) : v \in -1..MaxPage}

LimitArgs ==
    {Omitted}
    \cup {Given(v) : v \in (-1..MaxLimit)
                            \cup {DefaultSearchLimit, DefaultListLimit,
                                  LimitCeiling, LimitCeiling + 1}}

\* .default(d) of the schema and the default of the destructured parameter
WithDefault(arg, d) == IF arg.given THEN arg.value ELSE d

\* variant: the limit is passed on as asked
EffectiveLimit_unclamped(limit) == limit

\* Math.min(limit, 50)
EffectiveLimit(limit) == Min(limit, LimitCeiling)

Thrown(message) ==
    [kind |-> "thrown", found |-> 0, showing |-> 0, page |-> 0, content |-> "",
     message |-> message]

\* the text block of search_wiki_pages and list_wiki_pages:
\* "Found {total} pages (showing {pages.length} on page {page})"
ListingText(res) ==
    [kind |-> "text", found |-> res.total, showing |-> Len(res.pages),
     page |-> res.page, content |-> "", message |-> <<>>]

\* the text block of get_wiki_page, ending in the page's content
PageText(res) ==
    [kind |-> "text", found |-> 0, showing |-> 1, page |-> 0,
     content |-> res.pages[1].content, message |-> <<>>]

\* variant: the handler catches the error and answers with a text block
Handler_catch(res, text) ==
    IF res.kind = "error"
    THEN [kind |-> "text", found |-> 0, showing |-> 0, page |-> 0, content |-> "",
          message |-> res.message]
    ELSE text

\* an async handler without try/catch: the awaited call's error is its own
Handler(res, text) == IF res.kind = "error" THEN Thrown(res.message) ELSE text

\* search_wiki_pages up to `await wikiService.searchPages(...)`
search_wiki_pages(page, limit) ==
    /\ pc \in {"stdio", "http"}
    /\ toolCall' = [tool |-> "search_wiki_pages", page |-> page, limit |-> limit]
    /\ toolResult' = NoToolResult
    /\ SearchPagesIssued(WithDefault(page, DefaultPage),
                         EffectiveLimit(WithDefault(limit, DefaultSearchLimit)))
    /\ UNCHANGED <<pc, env, tools, httpVars>>

\* list_wiki_pages up to `await wikiService.listPages(...)`
list_wiki_pages(page, limit) ==
    /\ pc \in {"stdio", "http"}
    /\ toolCall' = [tool |-> "list_wiki_pages", page |-> page, limit |-> limit]
    /\ toolResult' = NoToolResult
    /\ ListPagesIssued(WithDefault(page, DefaultPage),
                       EffectiveLimit(WithDefault(limit, DefaultListLimit)))
    /\ UNCHANGED <<pc, env, tools, httpVars>>

\* get_wiki_page up to `await wikiService.getPage(pageId)`
get_wiki_page(pid) ==
    /\ pc \in {"stdio", "http"}
    /\ toolCall' = [tool |-> "get_wiki_page", page |-> Omitted, limit |-> Omitted]
    /\ toolResult' = NoToolResult
    /\ GetPageIssued(pid)
    /\ UNCHANGED <<pc, env, tools, httpVars>>

\* a handler from the adapter's return or throw to its own
HandlerReturn ==
    /\ toolCall.tool # "none"
    /\ result # NoResult
    /\ toolResult = NoToolResult
    /\ toolResult' = Handler(result, IF toolCall.tool = "get_wiki_page"
                                     THEN PageText(result)
                                     ELSE ListingText(result))
    /\ UNCHANGED <<pc, env, tools, httpVars, adapterVars, toolCall>>

ToolNext ==
    \/ \E page \in PageArgs, limit \in LimitArgs : search_wiki_pages(page, limit)
    \/ \E page \in PageArgs, limit \in LimitArgs : list_wiki_pages(page, limit)
    \/ \E pid \in PageIds : get_wiki_page(pid)
    \/ \E up \in SearchUpstreams : searchPagesReturn(up)
    \/ \E up \in ListUpstreams : listPagesReturn(up)
    \/ \E up \in GetUpstreams : getPageReturn(up)
    \/ HandlerReturn

ToolSpec == AdapterInit /\ [][ToolNext]_vars

----------------------------------------------------------------------------
(* HTTP session layer: properties *)

\* identifiers of sessions whose transport has closed
Destroyed == {tSession[t] : t \in tClosed}

\* the transport instance made by the initialize call that generated `sid`
CreatedFor(sid) == CHOOSE t \in Transports : tSession[t] = sid

\* C1: an initialize POST without a session header creates a session whose
\* identifier is not a key of the mapping at that moment, stored under the
\* transport made for that call; a later POST bearing a live identifier is
\* handled by the transport instance made for the initialize call that
\* generated it.
C1_FreshSessionSameTransport ==
    [][ /\ (last'.verb = "POST" /\ ~Truthy(last'.header) /\ last'.method = "initialize")
            => /\ last'.outcome = "initialized"
               /\ last'.session \notin DOMAIN transports
               /\ last'.transport \notin {transports[k] : k \in DOMAIN transports}
               /\ DOMAIN transports' = DOMAIN transports \cup {last'.session}
               /\ transports'[last'.session] = last'.transport
               /\ tSession'[last'.transport] = last'.session
        /\ (last'.verb = "POST" /\ last'.header \in DOMAIN transports)
            => /\ last'.transport = CreatedFor(last'.header)
               /\ transports'[last'.header] = CreatedFor(last'.header)
      ]_vars

\* a call of the first session is handled by the first transport although
\* later sessions exist
C1_Witness ==
    /\ last.verb = "POST"
    /\ last.outcome = "handled"
    /\ last.header \in DOMAIN transports
    /\ last.transport = 1
    /\ created >= 2
    /\ Cardinality(DOMAIN transports) >= 2

\* C2: a POST whose method is not initialize and whose session identifier is
\* missing or not a key of the mapping is rejected with the structured error
\* (status 400, code -32000, id null); no transport is made and the mapping
\* is unchanged.
C2_UnknownSessionRejected ==
    [][ (last'.verb = "POST" /\ last'.method # "initialize"
            /\ last'.header \notin DOMAIN transports)
         => /\ last'.outcome = "rejected"
            /\ last'.status = 400
            /\ last'.body = "jsonrpc-error"
            /\ last'.code = -32000
            /\ last'.id = "null"
            /\ created' = created
            /\ transports' = transports
      ]_vars

\* C3: a POST bearing an identifier that is a key of the mapping is handed to
\* the transport stored under it, whatever its method, and makes neither a
\* transport nor a mapping entry.
C3_KnownSessionRouted ==
    [][ (last'.verb = "POST" /\ last'.header \in DOMAIN transports)
         => /\ last'.transport = transports[last'.header]
            /\ last'.outcome \in {"handled", "refused"}
            /\ created' = created
            /\ transports' = transports
      ]_vars

\* an initialize call bearing a live identifier reached the stored transport
C3_Witness ==
    /\ last.verb = "POST"
    /\ last.method = "initialize"
    /\ last.header \in DOMAIN transports
    /\ last.transport = transports[last.header]
    /\ last.outcome = "refused"

\* C4: when a session's transport closes or the session is terminated by
\* DELETE, its entry leaves the mapping; every later call bearing that
\* identifier is rejected as an unknown session and starts none; a destroyed
\* session is never a key of the mapping again.
C4_DestroyedStaysDestroyed ==
    [][ /\ (last'.outcome \in {"terminated", "closed"} /\ Truthy(last'.session))
            => /\ last'.session \notin DOMAIN transports'
               /\ last'.session \in Destroyed'
        /\ \A s \in Destroyed : s \in Destroyed' /\ s \notin DOMAIN transports'
        /\ (last'.verb \in {"POST", "GET", "DELETE"} /\ last'.header \in Destroyed)
            => /\ last'.outcome = "rejected"
               /\ created' = created
               /\ transports' = transports
      ]_vars

\* an initialize call bearing the identifier of a terminated session was
\* rejected while another session is live
C4_Witness ==
    /\ last.verb = "POST"
    /\ last.method = "initialize"
    /\ last.header \in Destroyed
    /\ last.outcome = "rejected"
    /\ DOMAIN transports # {}

\* C5: creating, using or closing one session leaves every other session's
\* mapping entry alone, and a handled call is answered through the transport
\* of the session that sent it.
C5_SessionsIndependent ==
    [][ /\ \A b \in DOMAIN transports :
              b # last'.session
                => b \in DOMAIN transports' /\ transports'[b] = transports[b]
        /\ (last'.verb = "POST" /\ last'.outcome = "handled")
            => /\ last'.transport = transports[last'.header]
               /\ last'.via = transports[last'.header]
      ]_vars

\* C6: GET and DELETE are served only for an identifier that is a key of the
\* mapping; with a missing or unknown identifier the call is rejected with a
\* structured error body (fixed code, null id) and the mapping is unchanged.
C6_SessionRequestRejection ==
    [][ (last'.verb \in {"GET", "DELETE"})
         => IF last'.header \in DOMAIN transports
            THEN /\ last'.outcome \in {"handled", "terminated"}
                 /\ last'.transport = transports[last'.header]
            ELSE /\ last'.outcome = "rejected"
                 /\ last'.status = 400
                 /\ last'.body = "jsonrpc-error"
                 /\ last'.code = -32000
                 /\ last'.id = "null"
                 /\ transports' = transports
      ]_vars

----------------------------------------------------------------------------
(* Start-up: properties *)

\* C7: when the base URL or the API key is absent, the process exits before
\* any tool is registered and before any transport serves: the only states it
\* reaches are the start and the exit.
C7_NoPartialStartup ==
    (~Truthy(env.baseUrl) \/ ~Truthy(env.apiKey))
        => /\ pc \in {"start", "exited"}
           /\ tools = {}
           /\ serverTransport = NoTransport
           /\ created = 0
           /\ transports = <<>>

\* the process has exited because only the API key is missing
C7_Witness ==
    /\ pc = "exited"
    /\ Truthy(env.baseUrl)
    /\ env.apiKey = Undefined
    /\ tools = {}

----------------------------------------------------------------------------
(* Content adapter: properties *)

\* the offsets of the upstream sequence (from 0) that page `page` of size
\* `limit` covers
PageOffsets(n, page, limit) ==
    {o \in 0..(n - 1) : (page - 1) * limit <= o /\ o < (page - 1) * limit + limit}

\* the identifiers of the documents of a returned page, in order
Ids(pages) == [i \in DOMAIN pages |-> pages[i].id]

RECURSIVE ConcatPages(_, _, _)
\* pages 1..k of size `limit` of `all`, one after the other
ConcatPages(all, k, limit) ==
    IF k = 0 THEN <<>> ELSE ConcatPages(all, k - 1, limit) \o Paginate(all, k, limit)

\* C8 as stated: the returned sequence has length
\* min(limit, max(0, total - (page-1)*limit)), total being the total the
\* returned Page reports.
C8_LengthFromReportedTotal ==
    result.kind = "page"
        => Len(result.pages)
             = Min(request.limit,
                   Max(0, result.total - (request.page - 1) * request.limit))

\* C8 amended: the returned sequence has length
\* min(limit, max(0, n - (page-1)*limit)), n being the number of records the
\* upstream returned; for list that n is the total the returned Page reports.
C8_LengthFromUpstreamRecords ==
    result.kind = "page"
        => /\ Len(result.pages)
                = Min(request.limit,
                      Max(0, Len(response.results)
                                - (request.page - 1) * request.limit))
           /\ request.op = "list" => C8_LengthFromReportedTotal

\* a search returned a short last page while the upstream counts more hits
\* than the records it sent
C8_Witness ==
    /\ request.op = "search"
    /\ result.kind = "page"
    /\ request.page >= 2
    /\ Len(result.pages) >= 1
    /\ Len(result.pages) < request.limit
    /\ result.total > Len(response.results)

\* C9: the documents returned are the upstream records at offsets
\* (page-1)*limit up to but excluding (page-1)*limit + limit, in upstream
\* order, and consecutive pages neither repeat nor skip a record.
C9_PageIsUpstreamWindow ==
    result.kind = "page"
        => LET all == response.results
               start == (request.page - 1) * request.limit
               offs == PageOffsets(Len(all), request.page, request.limit)
               pagesToEnd == (Len(all) + request.limit - 1) \div request.limit
           IN  /\ Len(result.pages) = Cardinality(offs)
               /\ \A i \in DOMAIN result.pages :
                     /\ (start + i - 1) \in offs
                     /\ result.pages[i].id = ToString(all[start + i])
               /\ ConcatPages(all, pagesToEnd, request.limit) = all
               /\ Paginate(all, pagesToEnd + 1, request.limit) = <<>>

\* list(2, 2) over three records returned the one record at offset 2
C9_Witness ==
    /\ request = [op |-> "list", page |-> 2, limit |-> 2]
    /\ result.kind = "page"
    /\ Len(response.results) = 3
    /\ Ids(result.pages) = <<ToString(response.results[3])>>

\* C10: the total of a returned Page is the upstream total-hits value for
\* search and the length of the complete upstream listing for list, whatever
\* page and limit are: never the length of the returned slice as such.
C10_TotalIsUpstreamTotal ==
    result.kind = "page"
        => /\ request.op = "search" => result.total = response.totalHits
           /\ request.op = "list" => result.total = Len(response.results)
           /\ result.page = request.page
           /\ result.limit = request.limit

\* a search returned fewer documents than the total it reports
C10_Witness ==
    /\ request.op = "search"
    /\ result.kind = "page"
    /\ request.page = 2
    /\ result.total = response.totalHits
    /\ result.total # Len(result.pages)
    /\ Len(result.pages) >= 1

\* the value of a string of decimal digits, read from the left
DecimalValue(s) ==
    LET RECURSIVE Horner(_, _)
        Horner(i, acc) ==
            IF i > Len(s) THEN acc ELSE Horner(i + 1, 10 * acc + DigitValue(s[i]))
    IN  Horner(1, 0)

\* C13: getPage issues the by-id query, with the identifier parsed as an
\* integer, exactly when the identifier is one or more decimal digits and
\* nothing else; for every other identifier (empty, signed, mixed) it issues
\* the by-path query with the identifier as path and the locale "en".
C13_IdOrPathClassification ==
    request.op = "get"
        => LET digitsOnly == pageId # <<>> /\ {pageId[i] : i \in DOMAIN pageId} \subseteq Digits
           IN  /\ digitsOnly <=> query.name = "GetPageById"
               /\ digitsOnly
                    => query = [name |-> "GetPageById", id |-> DecimalValue(pageId),
                                path |-> <<>>, locale |-> ""]
               /\ ~digitsOnly
                    => query = [name |-> "GetPageByPath", id |-> 0,
                                path |-> pageId, locale |-> "en"]

\* getPage("70") issued the by-id query for the integer 70
C13_Witness ==
    /\ request.op = "get"
    /\ pageId = <<"7", "0">>
    /\ query.name = "GetPageById"
    /\ query.id = 70

\* C14: every Document returned by search or list has the empty string as
\* content; the Document returned by getPage carries the body of the upstream
\* record unchanged.
C14_ContentOnlyFromGetPage ==
    /\ result.kind = "page"
        => \A i \in DOMAIN result.pages : result.pages[i].content = ""
    /\ result.kind = "document"
        => /\ Len(result.pages) = 1
           /\ result.pages[1].content = response.results[1].content

\* getPage returned a record's non-empty body
C14_Witness ==
    /\ request.op = "get"
    /\ result.kind = "document"
    /\ response.results[1].content = "# Setup"
    /\ result.pages[1].content = "# Setup"

\* C15: testConnection returns a boolean and never raises: true when its
\* upstream query succeeds, false for every kind of failure.
C15_TestConnectionBoolean ==
    (request.op = "test" /\ response # NoUpstream)
        => /\ result.kind = "boolean"
           /\ result.value = (response.kind = "data")

\* the upstream request failed and testConnection returned false
C15_Witness ==
    /\ request.op = "test"
    /\ response.kind = "axios"
    /\ result.kind = "boolean"
    /\ result.value = FALSE

\* C17: when the upstream record returned for getPage omits the author
\* fields, the call succeeds and the Document's author is defaulted as in
\* list: id "0", name "Unknown", email empty.
C17_AuthorDefaulted ==
    (/\ request.op = "get"
     /\ response.kind = "data"
     /\ response.results # <<>>
     /\ response.results[1].authorId = Absent
     /\ response.results[1].authorName = Absent
     /\ response.results[1].authorEmail = Absent)
        => /\ result.kind = "document"
           /\ result.pages[1].author = DefaultAuthor

----------------------------------------------------------------------------
(* Tool registry: properties *)

\* C11: every Page returned by search or list, for any page and limit a
\* caller can pass through the tool's parameter schema, has at most `limit`
\* documents, limit being the page size the returned Page carries.
C11_LengthWithinLimit ==
    (toolCall.tool \in {"search_wiki_pages", "list_wiki_pages"} /\ result.kind = "page")
        => Len(result.pages) <= result.limit

\* C12: the limit given to the adapter is the requested limit, or 50 when
\* the requested limit exceeds 50; an omitted page is 1, an omitted limit is
\* 10 for search and 20 for list.
C12_LimitClampedAndDefaults ==
    toolCall.tool \in {"search_wiki_pages", "list_wiki_pages"}
        => LET search == toolCall.tool = "search_wiki_pages"
               asked == IF toolCall.limit.given THEN toolCall.limit.value
                        ELSE IF search THEN 10 ELSE 20
           IN  /\ request.op = (IF search THEN "search" ELSE "list")
               /\ request.page = (IF toolCall.page.given THEN toolCall.page.value ELSE 1)
               /\ request.limit = (IF asked > 50 THEN 50 ELSE asked)

\* list_wiki_pages was asked for 51 per page and listPages got 50
C12_Witness ==
    /\ toolCall.tool = "list_wiki_pages"
    /\ toolCall.limit = Given(51)
    /\ ~toolCall.page.given
    /\ request = [op |-> "list", page |-> 1, limit |-> 50]

\* the prefix every error of an adapter operation starts with
Prefix(op) ==
    CASE op = "search" -> "Wiki.JS search failed: "
      [] op = "list" -> "Wiki.JS page listing failed: "
      [] op = "get" -> "Wiki.JS page retrieval failed: "

\* C16: when the upstream call fails, reports an error list or (for getPage)
\* returns no record, the operation returns nothing and raises an error that
\* starts with its fixed prefix; the tool handler lets it through instead of
\* answering with a text block.
C16_FailuresPropagate ==
    (/\ toolCall.tool # "none"
     /\ \/ response.kind \in {"errors", "axios"}
        \/ (request.op = "get" /\ response.kind = "data" /\ response.results = <<>>))
        => /\ result.kind = "error"
           /\ result.pages = <<>>
           /\ result.message[1] = Prefix(request.op)
           /\ toolResult.kind \in {"none", "thrown"}
           /\ toolResult.kind = "thrown" => toolResult.message = result.message

\* get_wiki_page let the "not found" error of getPage through
C16_Witness ==
    /\ toolCall.tool = "get_wiki_page"
    /\ response.kind = "data"
    /\ response.results = <<>>
    /\ toolResult.kind = "thrown"
    /\ toolResult.message = <<"Wiki.JS page retrieval failed: ", "Page not found: ">>

----------------------------------------------------------------------------
(* HTTP session layer: calls in flight and the shape of the mapping *)

\* C18: when a session's transport closes while a tool call of that session
\* awaits its upstream request, the mapping entry is gone as soon as the close
\* has happened, the call stays in flight, and when it completes the mapping
\* is left as it is and the result goes over no other session's transport.
C18_ClosedSessionCallDiscarded ==
    [][/\ (/\ pending # NoCall
           /\ pending.transport \notin tClosed
           /\ pending.transport \in tClosed')
          => /\ pending.session \notin DOMAIN transports'
             /\ pending' = pending
       /\ (/\ pending # NoCall
           /\ pending.transport \in tClosed
           /\ last'.verb = "complete")
          => /\ transports' = transports
             /\ last'.via \in {NoTransport, pending.transport}]_vars

\* every key leads to a transport that carries the key as its own session
\* identifier, and no transport sits under two keys
MappingShape ==
    /\ \A k \in DOMAIN transports :
         /\ transports[k] \in 1..created
         /\ tSession[transports[k]] = k
    /\ \A k1, k2 \in DOMAIN transports :
         transports[k1] = transports[k2] => k1 = k2

\* a step that adds a key is an initialize POST without session header that
\* opened a session, and it adds that session's key alone
AddedByInitialize ==
    (DOMAIN transports' \ DOMAIN transports # {})
        => /\ last'.verb = "POST"
           /\ last'.method = "initialize"
           /\ ~Truthy(last'.header)
           /\ last'.outcome = "initialized"
           /\ DOMAIN transports' \ DOMAIN transports = {last'.session}
           /\ transports'[last'.session] = last'.transport

\* C19: in every reachable state of HTTP mode each key of the mapping maps to
\* a transport whose session identifier is that key and no transport is
\* stored under two keys; entries are only added by an initialize call that
\* establishes a session, one entry per call.
C19_MappingWellFormed ==
    /\ [](pc = "http" => MappingShape)
    /\ [][AddedByInitialize]_vars

\* three sessions are live, each under its own key, the last just opened
C19_Witness ==
    /\ pc = "http"
    /\ Cardinality(DOMAIN transports) = MaxTransports
    /\ last.outcome = "initialized"
    /\ last.session \in DOMAIN transports
    /\ transports[last.session] = created

====
